---- MODULE Spec2Model ----
(***************************************************************************)
(* Model of dataframe_cleaning.py: a top-level script that loads a         *)
(* partitioned DataFrame, runs a fixed list of cleaning statements over it *)
(* and writes the result.  The outlier step asks the engine for the 5th    *)
(* and 95th percentile of numeric_column with relative error 0.0 and       *)
(* clamps every row against them.                                          *)
(*                                                                         *)
(* A cell is {} (SQL null) or {v} (the number v).  A row is a record of    *)
(* cells, a partition a sequence of rows, a DataFrame a sequence of        *)
(* partitions.  Ranks and the relative error are in hundredths.            *)
(***************************************************************************)
EXTENDS Integers, Sequences, FiniteSets, TLC

VARIABLES pc, df, quantiles, lower_bound, upper_bound, executed, failedAt,
          written, call, parts, pending, result

vars == <<pc, df, quantiles, lower_bound, upper_bound, executed, failedAt,
          written, call, parts, pending, result>>

pipelineVars == <<pc, df, quantiles, lower_bound, upper_bound, executed,
                  failedAt, written, call>>

estimateVars == <<parts, pending, result>>

(* ---------------------------- bounds ----------------------------------- *)
MaxVal == 2

MaxRows == 2

MaxPart == 2

(* --------------------------- constants --------------------------------- *)
Scale == 100

(* A call that asks for relative error 1.0 instead of 0.0. *)
relativeError_one == Scale

relativeError == 0

probabilities == <<5, 95>>

NumPartitions == 10

DefaultEpsilon == 1

(* ----------------------------- cells ----------------------------------- *)
NULL == {}

Num(v) == {v}

IsNull(c) == c = {}

ValueOf(c) == CHOOSE v \in c : TRUE

Values == 1..MaxVal

Cells == {NULL} \cup {Num(v) : v \in Values}

Rows == [important_column1 : {NULL, Num(1), Num(2)}, numeric_column : Cells]

RECURSIVE Flatten(_)
Flatten(ps) == IF ps = <<>> THEN <<>> ELSE Head(ps) \o Flatten(Tail(ps))

Min(a, b) == IF a < b THEN a ELSE b

(* Every way of cutting a sequence into n consecutive, possibly empty,     *)
(* partitions; with every order of the sequence this is every way of       *)
(* spreading its elements over n partitions.                               *)
Cuts(len, n) == {a \in [1..len -> 1..n] : \A i \in 1..(len - 1) : a[i] <= a[i + 1]}

chunk(s, a, p) ==
  LET idx == {i \in 1..Len(s) : a[i] = p}
      before == Cardinality({i \in 1..Len(s) : a[i] < p})
  IN [j \in 1..Cardinality(idx) |-> s[before + j]]

split(s, a, n) == [p \in 1..n |-> chunk(s, a, p)]

(* ------------------- column expressions (when/otherwise) --------------- *)
(* col < x and col > x are null when col is null; a null condition does    *)
(* not select its branch.                                                  *)
Lt(c, x) == ~IsNull(c) /\ ValueOf(c) < x

Gt(c, x) == ~IsNull(c) /\ ValueOf(c) > x

(* The clamp without its upper branch. *)
Capped_noUpper(c, lo, hi) ==
  IF Lt(c, lo) THEN Num(lo)
  ELSE c

(* The clamp with the two bounds taken in the wrong order. *)
Capped_swapped(c, lo, hi) ==
  IF Lt(c, hi) THEN Num(hi)
  ELSE IF Gt(c, lo) THEN Num(lo)
  ELSE c

Capped(c, lo, hi) ==
  IF Lt(c, lo) THEN Num(lo)
  ELSE IF Gt(c, hi) THEN Num(hi)
  ELSE c

withColumn(row, name, cell) ==
  [k \in (DOMAIN row) \cup {name} |-> IF k = name THEN cell ELSE row[k]]

(* --------------------- quantile summaries ------------------------------ *)
(* With relative error 0 a summary keeps every value it was given, in      *)
(* ascending order, each with weight 1.                                    *)
RECURSIVE insert(_, _)
insert(s, v) ==
  IF s = <<>> THEN <<v>>
  ELSE IF v < Head(s) THEN <<v>> \o s
  ELSE <<Head(s)>> \o insert(Tail(s), v)

RECURSIVE sketchOf(_)
sketchOf(cells) ==
  IF cells = <<>> THEN <<>>
  ELSE LET rest == sketchOf(Tail(cells))
       IN IF IsNull(Head(cells)) THEN rest ELSE insert(rest, ValueOf(Head(cells)))

RECURSIVE walk(_, _)
walk(a, b) ==
  IF a = <<>> THEN b
  ELSE IF b = <<>> THEN a
  ELSE IF Head(a) < Head(b) THEN <<Head(a)>> \o walk(Tail(a), b)
  ELSE <<Head(b)>> \o walk(a, Tail(b))

(* A merge that appends instead of interleaving by value. *)
merge_append(a, b) == a \o b

(* A merge that returns the empty operand instead of the other one. *)
merge_returnsEmpty(a, b) ==
  IF b = <<>> THEN b
  ELSE IF a = <<>> THEN a
  ELSE walk(a, b)

merge(a, b) ==
  IF b = <<>> THEN a
  ELSE IF a = <<>> THEN b
  ELSE walk(a, b)

CeilDiv(a, b) == (a + b - 1) \div b

query(s, p) ==
  IF p <= relativeError THEN s[1]
  ELSE IF p >= Scale - relativeError THEN s[Len(s)]
  ELSE s[Min(CeilDiv(p * Len(s), Scale), Len(s))]

queryAll(s, ps) ==
  IF s = <<>> THEN <<>> ELSE [i \in 1..Len(ps) |-> query(s, ps[i])]

RECURSIVE reduce(_)
reduce(sketches) ==
  IF sketches = <<>> THEN <<>>
  ELSE merge(Head(sketches), reduce(Tail(sketches)))

column(partition, name) == [i \in 1..Len(partition) |-> partition[i][name]]

(* An estimate that reads the first partition only. *)
approxQuantile_firstPartition(d, name, ps) ==
  queryAll(IF d = <<>> THEN <<>> ELSE sketchOf(column(d[1], name)), ps)

approxQuantile(d, name, ps) ==
  queryAll(reduce([i \in 1..Len(d) |-> sketchOf(column(d[i], name))]), ps)

(* ------------------------ the script ----------------------------------- *)
Statements ==
  <<"dropDuplicates", "dropna", "fillna", "clean_text", "categorical",
    "approxQuantile", "bounds", "clamp", "cast", "rename", "drop",
    "repartition", "show", "write", "stop">>

NoOutput == <<"none">>

Unbound == {}

TypeOK ==
  /\ pc \in {Statements[i] : i \in 1..Len(Statements)} \cup {"done", "failed", "idle"}
  /\ Len(quantiles) \in {0, 2}

Scenario == [i \in 1..4 |-> [j \in 1..25 |-> Num(25 * (i - 1) + j)]]

ScenarioFrame ==
  [i \in 1..4 |-> [j \in 1..25 |->
     [important_column1 |-> Num(1), numeric_column |-> Scenario[i][j]]]]

Init ==
  /\ pc = "dropDuplicates"
  /\ \/ \E n \in 0..MaxRows : \E s \in [1..n -> Rows] : \E a \in Cuts(n, MaxPart) :
          df = split(s, a, MaxPart)
     \/ df = ScenarioFrame
  /\ quantiles = <<>>
  /\ lower_bound = Unbound
  /\ upper_bound = Unbound
  /\ executed = <<>>
  /\ failedAt = "none"
  /\ written = NoOutput
  /\ call = <<>>
  /\ parts = <<>>
  /\ pending = [todo |-> {}, alive |-> {}, sk |-> <<>>]
  /\ result = [state |-> "none", q |-> <<>>]

Advance(stmt, next) ==
  /\ pc = stmt
  /\ pc' = next
  /\ executed' = Append(executed, stmt)
  /\ UNCHANGED <<failedAt, estimateVars>>

(* dropDuplicates keeps one row of every group of equal rows. *)
RECURSIVE dedupSeq(_, _)
dedupSeq(rows, seen) ==
  IF rows = <<>> THEN <<>>
  ELSE IF Head(rows) \in seen THEN dedupSeq(Tail(rows), seen)
  ELSE <<Head(rows)>> \o dedupSeq(Tail(rows), seen \cup {Head(rows)})

RECURSIVE dropDuplicates(_, _)
dropDuplicates(d, seen) ==
  IF d = <<>> THEN <<>>
  ELSE LET kept == dedupSeq(Head(d), seen)
       IN <<kept>> \o dropDuplicates(Tail(d), seen \cup {kept[i] : i \in 1..Len(kept)})

DropDuplicates ==
  /\ Advance("dropDuplicates", "dropna")
  /\ df' = dropDuplicates(df, {})
  /\ UNCHANGED <<quantiles, lower_bound, upper_bound, written, call>>

dropnaKeep(row) == ~IsNull(row.important_column1)

DropNa ==
  /\ Advance("dropna", "fillna")
  /\ df' = [i \in 1..Len(df) |-> SelectSeq(df[i], dropnaKeep)]
  /\ UNCHANGED <<quantiles, lower_bound, upper_bound, written, call>>

(* fillna touches column1, column2 and column3 only; the text and          *)
(* categorical statements touch cleaned_text and categorical_column only.  *)
(* None of them is a column of the modelled rows.                          *)
FillNa ==
  /\ Advance("fillna", "clean_text")
  /\ UNCHANGED <<df, quantiles, lower_bound, upper_bound, written, call>>

CleanText ==
  /\ Advance("clean_text", "categorical")
  /\ UNCHANGED <<df, quantiles, lower_bound, upper_bound, written, call>>

(* A script in which the cast follows the categorical step directly. *)
Categorical_skipsCapping ==
  /\ Advance("categorical", "cast")
  /\ UNCHANGED <<df, quantiles, lower_bound, upper_bound, written, call>>

Categorical ==
  /\ Advance("categorical", "approxQuantile")
  /\ UNCHANGED <<df, quantiles, lower_bound, upper_bound, written, call>>

ApproxQuantile ==
  /\ Advance("approxQuantile", "bounds")
  /\ call' = Append(call, [col |-> "numeric_column", ranks |-> probabilities,
                           eps |-> relativeError])
  /\ quantiles' = approxQuantile(df, "numeric_column", probabilities)
  /\ UNCHANGED <<df, lower_bound, upper_bound, written>>

(* Bounds that fall back to 0 when the quantile list is empty. *)
Bounds_defaults ==
  /\ pc = "bounds"
  /\ pc' = "clamp"
  /\ lower_bound' = IF Len(quantiles) = 0 THEN Num(0) ELSE Num(quantiles[1])
  /\ upper_bound' = IF Len(quantiles) = 0 THEN Num(0) ELSE Num(quantiles[2])
  /\ executed' = Append(executed, "bounds")
  /\ UNCHANGED <<failedAt, df, quantiles, written, call, estimateVars>>

(* Bounds widened by a margin of 1 on either side. *)
Bounds_margin ==
  /\ pc = "bounds"
  /\ IF Len(quantiles) = 0
       THEN /\ pc' = "failed"
            /\ failedAt' = "bounds"
            /\ UNCHANGED <<lower_bound, upper_bound, executed>>
       ELSE /\ pc' = "clamp"
            /\ lower_bound' = Num(quantiles[1] - 1)
            /\ upper_bound' = Num(quantiles[2] + 1)
            /\ executed' = Append(executed, "bounds")
            /\ UNCHANGED failedAt
  /\ UNCHANGED <<df, quantiles, written, call, estimateVars>>

(* quantiles[0] and quantiles[1]: indexing an empty list raises. *)
Bounds ==
  /\ pc = "bounds"
  /\ IF Len(quantiles) = 0
       THEN /\ pc' = "failed"
            /\ failedAt' = "bounds"
            /\ UNCHANGED <<lower_bound, upper_bound, executed>>
       ELSE /\ pc' = "clamp"
            /\ lower_bound' = Num(quantiles[1])
            /\ upper_bound' = Num(quantiles[2])
            /\ executed' = Append(executed, "bounds")
            /\ UNCHANGED failedAt
  /\ UNCHANGED <<df, quantiles, written, call, estimateVars>>

clampRow(row) ==
  withColumn(row, "numeric_column_capped",
             Capped(row.numeric_column, ValueOf(lower_bound), ValueOf(upper_bound)))

Clamp ==
  /\ Advance("clamp", "cast")
  /\ df' = [i \in 1..Len(df) |-> [j \in 1..Len(df[i]) |-> clampRow(df[i][j])]]
  /\ UNCHANGED <<quantiles, lower_bound, upper_bound, written, call>>

(* cast("double") of a whole number keeps its value; null stays null. *)
castDouble(c) == IF IsNull(c) THEN NULL ELSE Num(ValueOf(c))

castRow(row) == withColumn(row, "numeric_column", castDouble(row.numeric_column))

Cast ==
  /\ Advance("cast", "rename")
  /\ df' = [i \in 1..Len(df) |-> [j \in 1..Len(df[i]) |-> castRow(df[i][j])]]
  /\ UNCHANGED <<quantiles, lower_bound, upper_bound, written, call>>

Rename ==
  /\ Advance("rename", "drop")
  /\ UNCHANGED <<df, quantiles, lower_bound, upper_bound, written, call>>

Drop ==
  /\ Advance("drop", "repartition")
  /\ UNCHANGED <<df, quantiles, lower_bound, upper_bound, written, call>>

(* repartition(n) deals the rows round-robin over n partitions. *)
repartition(d, n) ==
  LET rows == Flatten(d)
      idx(k) == {i \in 1..Len(rows) : ((i - 1) % n) + 1 = k}
      pick(k, j) == CHOOSE i \in idx(k) : Cardinality({h \in idx(k) : h < i}) = j - 1
  IN [k \in 1..n |-> [j \in 1..Cardinality(idx(k)) |-> rows[pick(k, j)]]]

Repartition ==
  /\ Advance("repartition", "show")
  /\ df' = repartition(df, NumPartitions)
  /\ UNCHANGED <<quantiles, lower_bound, upper_bound, written, call>>

Show ==
  /\ Advance("show", "write")
  /\ UNCHANGED <<df, quantiles, lower_bound, upper_bound, written, call>>

Write ==
  /\ Advance("write", "stop")
  /\ written' = df
  /\ UNCHANGED <<df, quantiles, lower_bound, upper_bound, call>>

Stop ==
  /\ Advance("stop", "done")
  /\ UNCHANGED <<df, quantiles, lower_bound, upper_bound, written, call>>

(* A script that catches the exception and goes on with the next           *)
(* statement.                                                              *)
Raise_swallowed ==
  /\ \E i \in 1..(Len(Statements) - 1) :
       /\ pc = Statements[i]
       /\ pc' = Statements[i + 1]
  /\ failedAt' = pc
  /\ UNCHANGED <<df, quantiles, lower_bound, upper_bound, executed, written,
                 call, estimateVars>>

(* The script has no try/except: an exception raised by any statement      *)
(* (missing column, I/O error, lost executor) ends the interpreter there.  *)
Raise ==
  /\ pc \in {Statements[i] : i \in 1..Len(Statements)}
  /\ pc' = "failed"
  /\ failedAt' = pc
  /\ UNCHANGED <<df, quantiles, lower_bound, upper_bound, executed, written,
                 call, estimateVars>>

Next ==
  \/ DropDuplicates
  \/ DropNa
  \/ FillNa
  \/ CleanText
  \/ Categorical
  \/ ApproxQuantile
  \/ Bounds
  \/ Clamp
  \/ Cast
  \/ Rename
  \/ Drop
  \/ Repartition
  \/ Show
  \/ Write
  \/ Stop
  \/ Raise

Spec == Init /\ [][Next]_vars

(* ------------- the estimate, partition by partition -------------------- *)
(* One summary is built per partition, in any order; the summaries are     *)
(* then merged pairwise, in any order, and the ranks are read off the      *)
(* single summary that remains.                                            *)
EstParts == MaxPart + 1

EstRows == MaxRows + 1

EstCells == {NULL, Num(1), Num(2)}

NoResult == [state |-> "none", q |-> <<>>]

InitEstimate ==
  /\ pc = "idle"
  /\ df = <<>>
  /\ quantiles = <<>>
  /\ lower_bound = Unbound
  /\ upper_bound = Unbound
  /\ executed = <<>>
  /\ failedAt = "none"
  /\ written = NoOutput
  /\ call = <<>>
  /\ \E n \in 0..EstRows : \E s \in [1..n -> EstCells] : \E a \in Cuts(n, EstParts) :
       parts = split(s, a, EstParts)
  /\ pending = [todo |-> 1..Len(parts), alive |-> {}, sk |-> [i \in 1..Len(parts) |-> <<>>]]
  /\ result = NoResult

BuildSketch ==
  /\ result.state = "none"
  /\ \E i \in pending.todo :
       pending' = [todo |-> pending.todo \ {i},
                   alive |-> pending.alive \cup {i},
                   sk |-> [pending.sk EXCEPT ![i] = sketchOf(parts[i])]]
  /\ UNCHANGED <<parts, result, pipelineVars>>

(* Two summaries are merged, in either operand order, into the slot of the *)
(* first; the slot of the second is given up.                              *)
MergeStep ==
  /\ result.state = "none"
  /\ pending.todo = {}
  /\ \E i, j \in pending.alive :
       /\ i < j
       /\ \E m \in {merge(pending.sk[i], pending.sk[j]), merge(pending.sk[j], pending.sk[i])} :
            pending' = [pending EXCEPT !.alive = pending.alive \ {j},
                                       !.sk = [pending.sk EXCEPT ![i] = m, ![j] = <<>>]]
  /\ UNCHANGED <<parts, result, pipelineVars>>

Answer ==
  /\ result.state = "none"
  /\ pending.todo = {}
  /\ Cardinality(pending.alive) = 1
  /\ \E i \in pending.alive :
       result' = IF pending.sk[i] = <<>>
                   THEN [state |-> "empty", q |-> <<>>]
                   ELSE [state |-> "answered", q |-> queryAll(pending.sk[i], probabilities)]
  /\ UNCHANGED <<parts, pending, pipelineVars>>

NextEstimate == BuildSketch \/ MergeStep \/ Answer

SpecEstimate == InitEstimate /\ [][NextEstimate]_vars

(* ------------------------- properties ---------------------------------- *)
Did(stmt) == \E i \in 1..Len(executed) : executed[i] = stmt

AllRows == Flatten(df)

NumericRows == {i \in 1..Len(AllRows) : ~IsNull(AllRows[i].numeric_column)}

NumAt(i) == ValueOf(AllRows[i].numeric_column)

CountLt(v) == Cardinality({i \in NumericRows : NumAt(i) < v})

CountLe(v) == Cardinality({i \in NumericRows : NumAt(i) <= v})

Abs(x) == IF x < 0 THEN -x ELSE x

Lower == ValueOf(lower_bound)

Upper == ValueOf(upper_bound)

ProbeValues == 0..(MaxVal + 1)

(* C1, as stated: each returned quantile is a value of the column, and one *)
(* of the sorted positions k it occupies has rank k/N within epsilon of    *)
(* the requested rank (taking the default epsilon 0.01, which is looser    *)
(* than the 0.0 the call passes).                                          *)
C1_RankWithinEpsilon ==
  Len(quantiles) = 2 =>
    \A i \in 1..2 :
      \E k \in (CountLt(quantiles[i]) + 1)..CountLe(quantiles[i]) :
        Abs(Scale * k - probabilities[i] * Cardinality(NumericRows))
          <= DefaultEpsilon * Cardinality(NumericRows)

(* C1, amended: under every partitioning each returned quantile is a value *)
(* of the column at a sorted position k with r*N <= k <= r*N + 1, i.e. its *)
(* rank is within one position (1/N) of the requested rank r; for 1..100   *)
(* in 4 partitions of 25 the bounds are within 1 of 5 and 95.              *)
C1_RankWithinOnePosition ==
  Len(quantiles) = 2 =>
    /\ \A i \in 1..2 :
         \E k \in (CountLt(quantiles[i]) + 1)..CountLe(quantiles[i]) :
           /\ Scale * k - probabilities[i] * Cardinality(NumericRows) >= 0
           /\ Scale * k - probabilities[i] * Cardinality(NumericRows) <= Scale
    /\ (Cardinality(NumericRows) = 100 /\ \A v \in 1..100 : CountLe(v) = v) =>
         /\ Abs(quantiles[1] - 5) <= 1
         /\ Abs(quantiles[2] - 95) <= 1

C1_Witness ==
  /\ Len(df) = 4
  /\ \A i \in 1..4 : Len(df[i]) = 25
  /\ Cardinality(NumericRows) = 100
  /\ quantiles = <<5, 95>>

C1_SmallWitness ==
  /\ Len(df) = 2
  /\ Len(df[1]) = 1
  /\ Len(df[2]) = 1
  /\ Cardinality(NumericRows) = 2
  /\ quantiles = <<1, 2>>

(* C2: once the clamp has run, every row carries a capped value, which is  *)
(* lower when the row's number x is below lower, upper when x is above     *)
(* upper, and x otherwise; the same holds of the transform at every probe  *)
(* value x under the bounds the run computed.                              *)
C2_CappingCases ==
  Did("clamp") =>
    /\ \A i \in 1..Len(AllRows) : "numeric_column_capped" \in DOMAIN AllRows[i]
    /\ \A i \in NumericRows :
         /\ NumAt(i) < Lower => AllRows[i].numeric_column_capped = Num(Lower)
         /\ NumAt(i) > Upper => AllRows[i].numeric_column_capped = Num(Upper)
         /\ (NumAt(i) >= Lower /\ NumAt(i) <= Upper) =>
              AllRows[i].numeric_column_capped = Num(NumAt(i))
    /\ \A x \in ProbeValues :
         /\ x < Lower => Capped(Num(x), Lower, Upper) = Num(Lower)
         /\ x > Upper => Capped(Num(x), Lower, Upper) = Num(Upper)
         /\ (x >= Lower /\ x <= Upper) => Capped(Num(x), Lower, Upper) = Num(x)

C2_Witness ==
  /\ Did("clamp")
  /\ \E i \in NumericRows :
       NumAt(i) < Lower /\ AllRows[i].numeric_column_capped = Num(Lower)
  /\ \E i \in NumericRows :
       NumAt(i) > Upper /\ AllRows[i].numeric_column_capped = Num(Upper)
  /\ \E i \in NumericRows :
       NumAt(i) > Lower /\ NumAt(i) < Upper
         /\ AllRows[i].numeric_column_capped = Num(NumAt(i))

(* C3: the statements that have run form a run of the stages dedup,        *)
(* missing values, normalization, capping, coercion, rename/drop,          *)
(* repartition, write in exactly that order: no statement twice, no stage  *)
(* skipped or revisited, a stage begun only when every statement of the    *)
(* stage before it has run, the quantile estimate before the clamp, and a  *)
(* finished run has run them all.                                          *)
StageOrder ==
  <<"dedup", "missing", "normalize", "capping", "coerce", "renamedrop",
    "repartition", "write">>

StageOf(stmt) ==
  CASE stmt = "dropDuplicates" -> 1
    [] stmt \in {"dropna", "fillna"} -> 2
    [] stmt \in {"clean_text", "categorical"} -> 3
    [] stmt \in {"approxQuantile", "bounds", "clamp"} -> 4
    [] stmt = "cast" -> 5
    [] stmt \in {"rename", "drop"} -> 6
    [] stmt = "repartition" -> 7
    [] stmt = "write" -> 8
    [] OTHER -> 0

StageStatements(k) ==
  {Statements[i] : i \in {j \in 1..Len(Statements) : StageOf(Statements[j]) = k}}

isStageStatement(stmt) == StageOf(stmt) > 0

StageRun == SelectSeq(executed, isStageStatement)

C3_StageOrder ==
  /\ \A i, j \in 1..Len(executed) : i < j => executed[i] # executed[j]
  /\ Len(StageRun) > 0 => StageOf(StageRun[1]) = 1
  /\ \A i \in 1..(Len(StageRun) - 1) :
       \/ StageOf(StageRun[i + 1]) = StageOf(StageRun[i])
       \/ /\ StageOf(StageRun[i + 1]) = StageOf(StageRun[i]) + 1
          /\ \A st \in StageStatements(StageOf(StageRun[i])) :
               \E h \in 1..i : StageRun[h] = st
  /\ \A i, j \in 1..Len(executed) :
       (executed[i] = "approxQuantile" /\ executed[j] = "clamp") => i < j
  /\ pc = "done" =>
       \A k \in 1..Len(StageOrder) : \A st \in StageStatements(k) : Did(st)

C3_Witness ==
  /\ pc = "done"
  /\ Len(StageRun) = 13
  /\ StageOf(StageRun[13]) = Len(StageOrder)

(* C4: under the bounds a run computes, capping a value that is already    *)
(* capped gives the same value, for every probe value and for every row.   *)
C4_CappingIdempotent ==
  lower_bound # Unbound =>
    /\ \A x \in ProbeValues :
         Capped(Capped(Num(x), Lower, Upper), Lower, Upper)
           = Capped(Num(x), Lower, Upper)
    /\ \A i \in 1..Len(AllRows) :
         "numeric_column_capped" \in DOMAIN AllRows[i] =>
           /\ AllRows[i].numeric_column_capped
                = Capped(AllRows[i].numeric_column, Lower, Upper)
           /\ Capped(AllRows[i].numeric_column_capped, Lower, Upper)
                = AllRows[i].numeric_column_capped

C4_Witness ==
  /\ Did("clamp")
  /\ Lower < Upper
  /\ Capped(Num(0), Lower, Upper) = Num(Lower)
  /\ \E i \in NumericRows : AllRows[i].numeric_column_capped # AllRows[i].numeric_column

(* After the estimate ran on a column without numbers: no quantiles, no    *)
(* bounds, no output, and the run is at, or has failed at, the reading of  *)
(* the bounds.                                                             *)
C7_NoBoundsState ==
  (Did("approxQuantile") /\ NumericRows = {}) =>
    /\ quantiles = <<>>
    /\ lower_bound = Unbound
    /\ upper_bound = Unbound
    /\ written = NoOutput
    /\ pc \in {"bounds", "failed"}
    /\ pc = "failed" => (failedAt = "bounds" /\ StageOf(failedAt) = 4)
    /\ ~Did("bounds")
    /\ ~Did("clamp")

C7_FailsStep ==
  (pc = "bounds" /\ NumericRows = {}) => (pc' = "failed" /\ failedAt' = "bounds")

(* C7: when no row has a number in numeric_column, the estimate yields no  *)
(* bounds: the quantile list is empty, reading the bounds from it fails,   *)
(* and the run ends failed in the capping stage with both bounds unbound   *)
(* and nothing written.                                                    *)
C7_EmptyColumnFails == []C7_NoBoundsState /\ [][C7_FailsStep]_vars

C7_Witness ==
  /\ Len(AllRows) > 0
  /\ NumericRows = {}
  /\ Did("approxQuantile")
  /\ pc = "failed"
  /\ failedAt = "bounds"

(* A failure is recorded exactly in the failed state, the failing          *)
(* statement did not complete, and output exists only after every stage.   *)
C8_FailedState ==
  /\ (failedAt # "none") <=> (pc = "failed")
  /\ pc = "failed" => ~Did(failedAt)
  /\ written # NoOutput =>
       /\ \A k \in 1..Len(StageOrder) : \A st \in StageStatements(k) : Did(st)
       /\ failedAt \in {"none", "stop"}
  /\ (pc = "failed" /\ failedAt # "stop") => written = NoOutput

C8_FailedStep == pc = "failed" => UNCHANGED vars

(* C8: a failure stops the run where it happened: once a statement has     *)
(* failed nothing changes any more, and the output exists only when every  *)
(* statement of every stage has run and none before the write has failed.  *)
C8_FailureAborts == []C8_FailedState /\ [][C8_FailedStep]_vars

C8_Witness ==
  /\ pc = "failed"
  /\ failedAt = "cast"
  /\ Did("clamp")
  /\ written = NoOutput

(* C9: when the numbers of numeric_column are all one value v, however the *)
(* rows are spread over partitions, both bounds are v.                     *)
C9_IdenticalValues ==
  (Did("bounds") /\ NumericRows # {}) =>
    \A i \in NumericRows :
      (\A j \in NumericRows : NumAt(j) = NumAt(i)) =>
        (lower_bound = Num(NumAt(i)) /\ upper_bound = Num(NumAt(i)))

C9_Witness ==
  /\ Did("bounds")
  /\ Len(df) = 2
  /\ \E i \in 1..Len(df[1]) : ~IsNull(df[1][i].numeric_column)
  /\ \E i \in 1..Len(df[2]) : ~IsNull(df[2][i].numeric_column)
  /\ Cardinality(NumericRows) >= 2
  /\ \A i \in NumericRows : NumAt(i) = 2
  /\ lower_bound = Num(2)
  /\ upper_bound = Num(2)

(* C10, as stated: every call of the estimate has epsilon strictly between *)
(* 0 and 1 and every rank in [0,1].                                        *)
C10_EpsilonInOpenInterval ==
  \A c \in 1..Len(call) :
    /\ call[c].eps > 0
    /\ call[c].eps < Scale
    /\ \A i \in 1..Len(call[c].ranks) :
         call[c].ranks[i] >= 0 /\ call[c].ranks[i] <= Scale

(* C10, amended: every call of the estimate has epsilon 0.0, so epsilon is *)
(* in [0,1), and every rank in [0,1].                                      *)
C10_EpsilonZero ==
  \A c \in 1..Len(call) :
    /\ call[c].eps = 0
    /\ call[c].eps >= 0
    /\ call[c].eps < Scale
    /\ \A i \in 1..Len(call[c].ranks) :
         call[c].ranks[i] >= 0 /\ call[c].ranks[i] <= Scale

C10_Witness ==
  /\ Len(call) = 1
  /\ call[1].eps = 0
  /\ call[1].ranks = <<5, 95>>
  /\ Len(quantiles) = 2

(* ---------------- properties of the partitioned estimate --------------- *)
EstSketches == [i \in 1..Len(parts) |-> sketchOf(parts[i])]

Ranks == {r \in 0..Scale : r % 5 = 0}

agree(s, t) == \A r \in Ranks : queryAll(s, <<r>>) = queryAll(t, <<r>>)

hasNumber(cells) == \E i \in 1..Len(cells) : ~IsNull(cells[i])

(* C5: for the summaries of the partitions, merge(merge(a,b),c) and        *)
(* merge(a,merge(b,c)) answer every rank alike, and so do merge(a,b) and   *)
(* merge(b,a); whatever the order in which the summaries were built and    *)
(* merged, the answer is the one of merging them one after another.        *)
C5_MergeLaws ==
  /\ pending.alive = {} =>
       \A i, j, k \in 1..Len(parts) :
         /\ agree(merge(merge(EstSketches[i], EstSketches[j]), EstSketches[k]),
                  merge(EstSketches[i], merge(EstSketches[j], EstSketches[k])))
         /\ agree(merge(EstSketches[i], EstSketches[j]),
                  merge(EstSketches[j], EstSketches[i]))
  /\ result.state # "none" => result.q = queryAll(reduce(EstSketches), probabilities)

C5_Witness ==
  /\ result.state = "answered"
  /\ Len(parts) = 3
  /\ EstSketches[1] = <<2>>
  /\ EstSketches[2] = <<1>>
  /\ EstSketches[3] = <<2>>
  /\ result.q = <<1, 2>>

(* C6: merging a summary with the empty summary, on either side, answers   *)
(* every rank as the summary itself does; the answer of an estimate is the *)
(* answer computed from the partitions that have numbers, and the estimate *)
(* answers whenever some partition has a number.                           *)
C6_EmptyIdentity ==
  /\ \A i \in pending.alive :
       /\ agree(merge(pending.sk[i], <<>>), pending.sk[i])
       /\ agree(merge(<<>>, pending.sk[i]), pending.sk[i])
  /\ result.state # "none" =>
       /\ result.q = queryAll(reduce([i \in 1..Len(SelectSeq(parts, hasNumber)) |->
                                        sketchOf(SelectSeq(parts, hasNumber)[i])]),
                              probabilities)
       /\ (\E i \in 1..Len(parts) : hasNumber(parts[i])) => result.state = "answered"

C6_Witness ==
  /\ result.state = "answered"
  /\ Len(parts) = 3
  /\ parts[2] = <<NULL>>
  /\ parts[3] = <<>>
  /\ parts[1] = <<Num(2), Num(1)>>
  /\ result.q = <<1, 2>>

====
